---- MODULE Spec2Model ----
(***************************************************************************)
(* Annotation-based MCP tool filter of ibmi_agent_sdk.langchain            *)
(* (filtered_mcp_tools.py): load_filtered_mcp_tools and its helpers.       *)
(*                                                                         *)
(* Python values are tagged records, so that Python's ==, `in`, set() and  *)
(* truthiness are computed as CPython computes them (bool is an int,       *)
(* a list is unhashable, None equals only None).                           *)
(***************************************************************************)
EXTENDS Integers, Sequences, FiniteSets, TLC

\* Longest tool list the session returns in the general specification.
MaxTools == 3

----------------------------------------------------------------------------
\* Python values

PyNone == [kind |-> "None", s |-> "", n |-> 0, items |-> <<>>]
PyStr(x) == [kind |-> "str", s |-> x, n |-> 0, items |-> <<>>]
PyBool(b) == [kind |-> "bool", s |-> "", n |-> IF b THEN 1 ELSE 0, items |-> <<>>]
PyInt(k) == [kind |-> "int", s |-> "", n |-> k, items |-> <<>>]
PyList(xs) == [kind |-> "list", s |-> "", n |-> 0, items |-> xs]
\* A named function object; s is the function's identity.
PyCallable(f) == [kind |-> "callable", s |-> f, n |-> 0, items |-> <<>>]

\* bool is a subclass of int: True == 1 and False == 0.
IsNumber(v) == v.kind \in {"bool", "int"}

\* Python's a == b on the values above.
RECURSIVE PyEq(_, _)
PyEq(a, b) ==
    IF IsNumber(a) /\ IsNumber(b) THEN a.n = b.n
    ELSE IF a.kind # b.kind THEN FALSE
    ELSE IF a.kind = "str" THEN a.s = b.s
    ELSE IF a.kind = "None" THEN TRUE
    ELSE IF a.kind = "callable" THEN a.s = b.s
    ELSE /\ Len(a.items) = Len(b.items)
         /\ \A k \in 1..Len(a.items) : PyEq(a.items[k], b.items[k])

\* Python's bool(v).
Truthy(v) ==
    CASE v.kind = "None" -> FALSE
      [] v.kind = "str" -> v.s # ""
      [] IsNumber(v) -> v.n # 0
      [] v.kind = "list" -> Len(v.items) > 0
      [] OTHER -> TRUE

\* hash(v) succeeds: lists are unhashable.
Hashable(v) == v.kind # "list"

\* The outcome of evaluating an expression: a value, or an exception.
Returns(v) == [ok |-> TRUE, value |-> v, exc |-> ""]
Raises(e) == [ok |-> FALSE, value |-> PyNone, exc |-> e]

\* An outcome together with the caller-supplied functions and filter keys
\* evaluated on the way to it, in order.
Evaluated(outcome, evals) ==
    [ok |-> outcome.ok, value |-> outcome.value, exc |-> outcome.exc, evals |-> evals]

\* One evaluation: the custom filter, or the filter value of one key.
CustomFilterEval == [fn |-> "custom_filter", key |-> "", predicate |-> FALSE]
KeyEval(entry) ==
    [fn |-> "annotation_filter", key |-> entry.key,
     predicate |-> entry.value.kind = "callable"]

\* set(xs) raises TypeError when an element is unhashable.
SetRaises(xs) == \E k \in 1..Len(xs) : ~Hashable(xs[k])

\* set(xs) & set(ys) is non-empty (both sets built without error).
SetsIntersect(xs, ys) ==
    \E k \in 1..Len(xs) : \E j \in 1..Len(ys) : PyEq(xs[k], ys[j])

\* v in xs, for a list xs: some element equals v.
PyIn(v, xs) == \E j \in 1..Len(xs) : PyEq(xs[j], v)

----------------------------------------------------------------------------
\* Tools: a name and the metadata attribute (None, or a dict).

NoMetadata == [present |-> FALSE, entries |-> <<>>]
Metadata(entries) == [present |-> TRUE, entries |-> entries]
Entry(k, v) == [key |-> k, value |-> v]
Tool(name, metadata) == [name |-> name, metadata |-> metadata]

\* d.get(key, None) on the dict with the given entries.
DictGet(entries, key) ==
    IF \E k \in 1..Len(entries) : entries[k].key = key
    THEN entries[CHOOSE k \in 1..Len(entries) : entries[k].key = key].value
    ELSE PyNone

\* tool.metadata is truthy: not None and not the empty dict.
MetadataTruthy(tool) == tool.metadata.present /\ Len(tool.metadata.entries) > 0

\* Mutant: a missing annotation reads as the empty list (.get(key, [])).
get_annotation_value_empty_list(tool, annotation_key) ==
    IF MetadataTruthy(tool)
         /\ \E k \in 1..Len(tool.metadata.entries) :
                tool.metadata.entries[k].key = annotation_key
    THEN DictGet(tool.metadata.entries, annotation_key)
    ELSE PyList(<<>>)

get_annotation_value(tool, annotation_key) ==
    IF MetadataTruthy(tool)
    THEN DictGet(tool.metadata.entries, annotation_key)
    ELSE PyNone

----------------------------------------------------------------------------
\* Callers' functions: predicate filter values and custom filters.

\* lambda v: v is None
IsNonePredicate == PyCallable("is_none")
\* lambda v: len(v) > 0   (len() of None, a bool or an int raises TypeError)
NonEmptyPredicate == PyCallable("non_empty")

\* lambda v: v   (the result is not a bool)
IdentityPredicate == PyCallable("identity")

\* filter_value(annotation_value) for the predicates above.
CallPredicate(filter_value, annotation_value) ==
    IF filter_value.s = "is_none"
    THEN Returns(PyBool(annotation_value.kind = "None"))
    ELSE IF filter_value.s = "identity"
    THEN Returns(annotation_value)
    ELSE IF annotation_value.kind \in {"str", "list"}
         THEN Returns(PyBool(Truthy(annotation_value)))
         ELSE Raises("TypeError")

\* A custom filter decides by the tool's name: it raises RuntimeError for the
\* names in raises, and otherwise returns whether the name is in accept.
NoCustomFilter == [present |-> FALSE, accept |-> {}, raises |-> {}]
CustomFilter(accept, raises) == [present |-> TRUE, accept |-> accept, raises |-> raises]

\* custom_filter(tool)
CallCustomFilter(custom_filter, tool) ==
    IF tool.name \in custom_filter.raises
    THEN Raises("RuntimeError")
    ELSE Returns(PyBool(tool.name \in custom_filter.accept))

\* annotation_filters: None, or a dict (its items in insertion order).
NoAnnotationFilters == [present |-> FALSE, entries |-> <<>>]
AnnotationFilters(entries) == [present |-> TRUE, entries |-> entries]

\* `if annotation_filters:` - neither None nor the empty dict.
FiltersTruthy(annotation_filters) ==
    annotation_filters.present /\ Len(annotation_filters.entries) > 0

----------------------------------------------------------------------------
\* Matching

\* Mutant: no try/except around the call of the predicate.
PredicateMatchRaising(annotation_value, filter_value) ==
    LET r == CallPredicate(filter_value, annotation_value)
    IN  IF r.ok THEN Returns(PyBool(Truthy(r.value))) ELSE r

\* filter_value is callable: bool(filter_value(annotation_value)), and False
\* when the call raises.
PredicateMatch(annotation_value, filter_value) ==
    LET r == CallPredicate(filter_value, annotation_value)
    IN  IF r.ok THEN Returns(PyBool(Truthy(r.value))) ELSE Returns(PyBool(FALSE))

\* Mutant: every annotation value must be in the filter list (set <= set).
ListListMatchSubset(annotation_value, filter_value) ==
    IF SetRaises(annotation_value.items) \/ SetRaises(filter_value.items)
    THEN Raises("TypeError")
    ELSE Returns(PyBool(\A k \in 1..Len(annotation_value.items) :
                            PyIn(annotation_value.items[k], filter_value.items)))

\* Both are lists: bool(set(annotation_value) & set(filter_value)).
ListListMatch(annotation_value, filter_value) ==
    IF SetRaises(annotation_value.items) \/ SetRaises(filter_value.items)
    THEN Raises("TypeError")
    ELSE Returns(PyBool(SetsIntersect(annotation_value.items, filter_value.items)))

\* Mutant: only the first element of the filter list is compared.
ListScalarMatchFirst(annotation_value, filter_value) ==
    Returns(PyBool(Len(filter_value.items) > 0
                   /\ PyEq(annotation_value, filter_value.items[1])))

\* filter_value is a list, annotation_value is not: annotation_value in filter_value.
ListScalarMatch(annotation_value, filter_value) ==
    Returns(PyBool(PyIn(annotation_value, filter_value.items)))

\* Mutant: a scalar filter value is looked up in a list annotation.
ScalarMatchMembership(annotation_value, filter_value) ==
    IF annotation_value.kind = "list"
    THEN Returns(PyBool(PyIn(filter_value, annotation_value.items)))
    ELSE Returns(PyBool(PyEq(annotation_value, filter_value)))

\* Mutant: the filter value is ignored, the annotation's truth value decides.
ScalarMatchTruthy(annotation_value, filter_value) ==
    Returns(PyBool(Truthy(annotation_value)))

\* Primitive exact match: annotation_value == filter_value.
ScalarMatch(annotation_value, filter_value) ==
    Returns(PyBool(PyEq(annotation_value, filter_value)))

annotation_value_matches_filter(annotation_value, filter_value) ==
    IF filter_value.kind = "callable"
    THEN PredicateMatch(annotation_value, filter_value)
    ELSE IF filter_value.kind = "list"
    THEN IF annotation_value.kind = "list"
         THEN ListListMatch(annotation_value, filter_value)
         ELSE ListScalarMatch(annotation_value, filter_value)
    ELSE ScalarMatch(annotation_value, filter_value)

\* Mutant: an exception in the custom filter is passed over (except: pass).
CustomFilterPassesOnError(tool, custom_filter) ==
    IF custom_filter.present
    THEN LET r == CallCustomFilter(custom_filter, tool)
         IN  IF r.ok THEN Truthy(r.value) ELSE TRUE
    ELSE TRUE

\* The custom filter's part of _should_include_tool: TRUE when the tool goes
\* on to the annotation filters.
CustomFilterPasses(tool, custom_filter) ==
    IF custom_filter.present
    THEN LET r == CallCustomFilter(custom_filter, tool)
         IN  IF r.ok THEN Truthy(r.value) ELSE FALSE
    ELSE TRUE

\* Mutant: a key the tool has no annotation for is skipped.
RECURSIVE AnnotationFiltersPassSkipMissing(_, _, _)
AnnotationFiltersPassSkipMissing(tool, entries, k) ==
    IF k > Len(entries) THEN Evaluated(Returns(PyBool(TRUE)), <<>>)
    ELSE LET annotation_value == get_annotation_value(tool, entries[k].key)
             m == annotation_value_matches_filter(annotation_value, entries[k].value)
             rest == AnnotationFiltersPassSkipMissing(tool, entries, k + 1)
         IN  IF annotation_value.kind = "None" THEN rest
             ELSE IF ~m.ok THEN Evaluated(m, <<KeyEval(entries[k])>>)
             ELSE IF ~Truthy(m.value)
             THEN Evaluated(Returns(PyBool(FALSE)), <<KeyEval(entries[k])>>)
             ELSE Evaluated(rest, <<KeyEval(entries[k])>> \o rest.evals)

\* Mutant: one matching key is enough (OR instead of AND).
RECURSIVE AnnotationFiltersPassAny(_, _, _)
AnnotationFiltersPassAny(tool, entries, k) ==
    IF k > Len(entries) THEN Evaluated(Returns(PyBool(FALSE)), <<>>)
    ELSE LET annotation_value == get_annotation_value(tool, entries[k].key)
             m == annotation_value_matches_filter(annotation_value, entries[k].value)
             rest == AnnotationFiltersPassAny(tool, entries, k + 1)
         IN  IF ~m.ok THEN Evaluated(m, <<KeyEval(entries[k])>>)
             ELSE IF Truthy(m.value)
             THEN Evaluated(Returns(PyBool(TRUE)), <<KeyEval(entries[k])>>)
             ELSE Evaluated(rest, <<KeyEval(entries[k])>> \o rest.evals)

\* Mutant: every key is evaluated before the results are combined.
RECURSIVE AnnotationFiltersPassAllKeys(_, _, _)
AnnotationFiltersPassAllKeys(tool, entries, k) ==
    IF k > Len(entries) THEN Evaluated(Returns(PyBool(TRUE)), <<>>)
    ELSE LET annotation_value == get_annotation_value(tool, entries[k].key)
             m == annotation_value_matches_filter(annotation_value, entries[k].value)
             rest == AnnotationFiltersPassAllKeys(tool, entries, k + 1)
         IN  IF ~m.ok THEN Evaluated(m, <<KeyEval(entries[k])>>)
             ELSE IF ~Truthy(m.value) /\ rest.ok
             THEN Evaluated(Returns(PyBool(FALSE)), <<KeyEval(entries[k])>> \o rest.evals)
             ELSE Evaluated(rest, <<KeyEval(entries[k])>> \o rest.evals)

\* The for loop over annotation_filters.items(), from entry k on: the first
\* key that does not match returns False, an exception leaves the loop.
RECURSIVE AnnotationFiltersPass(_, _, _)
AnnotationFiltersPass(tool, entries, k) ==
    IF k > Len(entries) THEN Evaluated(Returns(PyBool(TRUE)), <<>>)
    ELSE LET annotation_value == get_annotation_value(tool, entries[k].key)
             m == annotation_value_matches_filter(annotation_value, entries[k].value)
             rest == AnnotationFiltersPass(tool, entries, k + 1)
         IN  IF ~m.ok THEN Evaluated(m, <<KeyEval(entries[k])>>)
             ELSE IF ~Truthy(m.value)
             THEN Evaluated(Returns(PyBool(FALSE)), <<KeyEval(entries[k])>>)
             ELSE Evaluated(rest, <<KeyEval(entries[k])>> \o rest.evals)

\* The evaluation of the custom filter, when one is given.
CustomFilterEvals(custom_filter) ==
    IF custom_filter.present THEN <<CustomFilterEval>> ELSE <<>>

\* Mutant: the annotation filters are applied before the custom filter.
should_include_tool_filters_first(tool, annotation_filters, custom_filter) ==
    LET last == CustomFilterEvals(custom_filter)
        keys == IF FiltersTruthy(annotation_filters)
                THEN AnnotationFiltersPass(tool, annotation_filters.entries, 1)
                ELSE Evaluated(Returns(PyBool(TRUE)), <<>>)
    IN  IF ~keys.ok \/ ~Truthy(keys.value) THEN keys
        ELSE IF ~CustomFilterPasses(tool, custom_filter)
        THEN Evaluated(Returns(PyBool(FALSE)), keys.evals \o last)
        ELSE Evaluated(Returns(PyBool(TRUE)), keys.evals \o last)

should_include_tool(tool, annotation_filters, custom_filter) ==
    LET first == CustomFilterEvals(custom_filter)
        keys == AnnotationFiltersPass(tool, annotation_filters.entries, 1)
    IN  IF ~CustomFilterPasses(tool, custom_filter)
        THEN Evaluated(Returns(PyBool(FALSE)), first)
        ELSE IF FiltersTruthy(annotation_filters)
        THEN Evaluated(keys, first \o keys.evals)
        ELSE Evaluated(Returns(PyBool(TRUE)), first)

----------------------------------------------------------------------------
\* The tools an MCP server may expose, and the arguments a caller may pass.

Toolsets(names) == Entry("toolsets", PyList(names))
ReadOnlyHint(b) == Entry("readOnlyHint", PyBool(b))

SystemStatus ==
    Tool("system_status",
         Metadata(<<Toolsets(<<PyStr("performance"), PyStr("sysadmin")>>),
                    ReadOnlyHint(TRUE)>>))
MemoryPools ==
    Tool("memory_pools",
         Metadata(<<Toolsets(<<PyStr("performance")>>), ReadOnlyHint(FALSE)>>))
AuditJournal ==
    Tool("audit_journal",
         Metadata(<<Toolsets(<<PyStr("security")>>), ReadOnlyHint(TRUE)>>))
\* no toolsets entry
Ping == Tool("ping", Metadata(<<ReadOnlyHint(TRUE)>>))
\* no metadata at all
Echo == Tool("echo", NoMetadata)
\* a toolsets list holding a list
NestedToolsets ==
    Tool("nested_toolsets",
         Metadata(<<Toolsets(<<PyList(<<PyStr("performance")>>)>>),
                    ReadOnlyHint(TRUE)>>))
\* a single toolset given as a string, the hint given as an int
LegacyJobInfo ==
    Tool("legacy_job_info",
         Metadata(<<Entry("toolsets", PyStr("performance")),
                    Entry("readOnlyHint", PyInt(1))>>))

ToolUniverse ==
    {SystemStatus, MemoryPools, AuditJournal, Ping, Echo, NestedToolsets,
     LegacyJobInfo}

ToolNames == { t.name : t \in ToolUniverse }

\* Tool names are unique identifiers: a list names no tool twice.
UniqueNames(tools) ==
    \A a, b \in 1..Len(tools) : tools[a].name = tools[b].name => a = b

ToolLists(universe, max) ==
    { tools \in UNION { [1..len -> universe] : len \in 0..max } :
        UniqueNames(tools) }

\* The five tools of the documented example: A and C in the performance
\* toolset, B in the security toolset, D and E without a toolsets annotation.
ScenarioA == Tool("A", Metadata(<<Toolsets(<<PyStr("performance")>>), ReadOnlyHint(TRUE)>>))
ScenarioB == Tool("B", Metadata(<<Toolsets(<<PyStr("security")>>), ReadOnlyHint(TRUE)>>))
ScenarioC == Tool("C", Metadata(<<Toolsets(<<PyStr("performance")>>), ReadOnlyHint(FALSE)>>))
ScenarioD == Tool("D", Metadata(<<ReadOnlyHint(TRUE)>>))
ScenarioE == Tool("E", NoMetadata)
ScenarioTools == {ScenarioA, ScenarioB, ScenarioC, ScenarioD, ScenarioE}

\* Filter values for the toolsets key and for the readOnlyHint key.
ToolsetsFilterValues ==
    { PyList(<<PyStr("performance")>>),
      PyList(<<PyStr("sysadmin"), PyStr("security")>>),
      PyList(<<PyStr("security")>>),
      PyList(<<PyNone>>),
      PyStr("performance"),
      PyNone,
      IsNonePredicate,
      NonEmptyPredicate }

ReadOnlyFilterValues == { PyBool(TRUE), PyBool(FALSE) }

SingleKeyFilters ==
    { AnnotationFilters(<<Entry("toolsets", v)>>) : v \in ToolsetsFilterValues }
    \cup { AnnotationFilters(<<Entry("readOnlyHint", v)>>) : v \in ReadOnlyFilterValues }

TwoKeyFilters ==
    LET lists == { PyList(<<PyStr("performance")>>), PyList(<<PyStr("security")>>) }
    IN  { AnnotationFilters(<<Entry("toolsets", v), Entry("readOnlyHint", w)>>) :
            v \in lists, w \in ReadOnlyFilterValues }
        \cup
        { AnnotationFilters(<<Entry("readOnlyHint", w), Entry("toolsets", v)>>) :
            v \in lists, w \in ReadOnlyFilterValues }

\* Tools that carry one annotation value each, to probe the match rules.
MaxProbes == 2

ProbeValues ==
    { PyStr("performance"), PyStr("security"), PyStr(""),
      PyBool(TRUE), PyBool(FALSE), PyInt(1), PyInt(0), PyInt(2), PyNone,
      PyList(<<PyStr("performance")>>), PyList(<<>>) }

Probe(name, value) == Tool(name, Metadata(<<Entry("toolsets", value)>>))

ProbeTools ==
    { Probe(name, value) : name \in {"probe_a", "probe_b"}, value \in ProbeValues }
    \cup { Tool("probe_a", NoMetadata) }

ProbeFilterValues ==
    { PyStr("performance"), PyBool(TRUE), PyBool(FALSE), PyInt(1), PyInt(0),
      PyList(<<PyStr("performance"), PyStr("sysadmin")>>),
      PyList(<<PyBool(TRUE)>>),
      PyList(<<PyStr("security"), PyInt(0)>>),
      IsNonePredicate, NonEmptyPredicate, IdentityPredicate }

ProbeFilters ==
    { AnnotationFilters(<<Entry("toolsets", v)>>) : v \in ProbeFilterValues }

\* Tools annotated with the standard MCP hints.
Hints(readOnly, destructive, openWorld) ==
    Metadata(<<Entry("readOnlyHint", readOnly),
               Entry("destructiveHint", destructive),
               Entry("openWorldHint", openWorld)>>)

ReadStatus == Tool("read_status", Hints(PyBool(TRUE), PyBool(FALSE), PyBool(FALSE)))
ListJobs == Tool("list_jobs", Hints(PyBool(TRUE), PyBool(FALSE), PyBool(FALSE)))
WebLookup == Tool("web_lookup", Hints(PyBool(TRUE), PyBool(FALSE), PyBool(TRUE)))
PurgeSpool == Tool("purge_spool", Hints(PyBool(FALSE), PyBool(TRUE), PyBool(FALSE)))
SetValue == Tool("set_value", Hints(PyBool(FALSE), PyBool(FALSE), PyBool(FALSE)))
RunQuery == Tool("run_query", Metadata(<<ReadOnlyHint(TRUE)>>))
LegacyRead == Tool("legacy_read", Hints(PyInt(1), PyInt(0), PyInt(0)))

HintTools ==
    { ReadStatus, ListJobs, WebLookup, PurgeSpool, SetValue, RunQuery, LegacyRead }

\* The toolsets arguments given to load_toolset_tools, and the filters given to
\* load_filtered_mcp_tools to compare with.
ToolsetsArguments ==
    { PyStr("performance"), PyStr("security"),
      PyList(<<PyStr("performance")>>),
      PyList(<<PyStr("security"), PyStr("performance")>>) }

ToolsetsFilters ==
    { AnnotationFilters(<<Entry("toolsets", v)>>) :
        v \in { PyList(<<PyStr("performance")>>), PyList(<<PyStr("security")>>),
                PyList(<<PyStr("security"), PyStr("performance")>>),
                PyStr("performance") } }

\* Calls made one after another on a session whose tool list changes.
MaxCalls == 3

RepeatTools == { SystemStatus, NestedToolsets }

RepeatArguments ==
    { <<NoAnnotationFilters, NoCustomFilter>>,
      <<AnnotationFilters(<<Toolsets(<<PyStr("performance")>>)>>), NoCustomFilter>>,
      <<NoAnnotationFilters, CustomFilter({"nested_toolsets"}, {"system_status"})>> }

\* Tools that lack some or all of the hints.
Unannotated == Tool("unannotated", NoMetadata)
EmptyMetadata == Tool("empty_metadata", Metadata(<<>>))
HalfAnnotated ==
    Tool("half_annotated",
         Metadata(<<ReadOnlyHint(TRUE), Entry("destructiveHint", PyBool(FALSE))>>))

SafeProbeTools ==
    { ReadStatus, LegacyRead, RunQuery, Unannotated, EmptyMetadata, HalfAnnotated }

\* Tools of the sysadmin toolsets, and the tool lists the agents' server gives.
ListServices ==
    Tool("list_services",
         Metadata(<<Toolsets(<<PyStr("sysadmin_discovery"), PyStr("sysadmin_browse")>>)>>))
SearchObjects ==
    Tool("search_objects", Metadata(<<Toolsets(<<PyStr("sysadmin_search")>>)>>))

AgentTools == { MemoryPools, ListServices, SearchObjects, Echo, NestedToolsets }

\* Filters with a predicate behind, or in front of, another key.
OrderFilters ==
    { NoAnnotationFilters,
      AnnotationFilters(<<Entry("toolsets", PyList(<<PyStr("performance")>>))>>),
      AnnotationFilters(<<Entry("readOnlyHint", PyBool(TRUE)),
                          Entry("toolsets", NonEmptyPredicate)>>),
      AnnotationFilters(<<Entry("toolsets", PyList(<<PyStr("security")>>)),
                          Entry("readOnlyHint", IsNonePredicate)>>),
      AnnotationFilters(<<Entry("toolsets", NonEmptyPredicate),
                          Entry("readOnlyHint", PyBool(FALSE))>>) }

FilterSpecs ==
    { NoAnnotationFilters, AnnotationFilters(<<>>) }
    \cup SingleKeyFilters \cup TwoKeyFilters

CustomFilters ==
    { NoCustomFilter,
      CustomFilter(ToolNames \ {"audit_journal"}, {}),
      CustomFilter(ToolNames, {"memory_pools"}),
      CustomFilter({"system_status", "ping", "echo"}, {"audit_journal", "echo"}) }

----------------------------------------------------------------------------
\* State

VARIABLES
    session_tools,       \* what load_mcp_tools(session) returns
    pc,                  \* "idle", "loop", "done" (returned), "raised"
    annotation_filters,  \* the call's arguments
    custom_filter,
    debug,
    all_tools,           \* the call's locals
    filtered_tools,
    idx,                 \* position of the for loop in all_tools
    result,              \* the list returned to the caller
    error,               \* the exception that left the call
    stdout,              \* the lines printed
    refiltered,          \* the call in progress filters an earlier call's result
    evals,               \* what was evaluated for the tool of the last iteration
    called,              \* the public function the caller called, and its argument
    fetches,             \* load_mcp_tools calls made by the call in progress
    calls,               \* calls started so far
    previous,            \* the outcome of the call this one is compared with
    returned,            \* what the finished calls gave their caller
    mcp_client,          \* the module globals of the LangGraph agents module
    shared_checkpointer,
    shared_store,
    shared_db,           \* the module global of the agno agents module
    objects,             \* objects constructed so far; the next one's identity
    agent_pc,            \* position of the agent factory in progress
    factory,             \* the factory in progress and its arguments
    session_url,         \* the URL the open MCP session is connected to
    agents,              \* the agents built, with what was attached to each
    invoked,             \* the factories invoked, in order
    requests,            \* the create_agent calls made, with their outcome
    VERBOSE_LOGGING,     \* the module global of the LangGraph agents module
    chats,               \* the chat_with_agent calls: position, arguments, locals
    verbose_at_rest,     \* VERBOSE_LOGGING before the chats in progress started
    adk_pc,              \* position of run_agent of the Google ADK CLI
    adk_call,            \* its arguments
    mcp_toolset          \* the MCP toolset the ADK factory returned

vars == <<session_tools, pc, annotation_filters, custom_filter, debug,
          all_tools, filtered_tools, idx, result, error, stdout, refiltered,
          evals, called, fetches, calls, previous, returned,
          mcp_client, shared_checkpointer, shared_store, shared_db, objects,
          agent_pc, factory, session_url, agents, invoked, requests,
          VERBOSE_LOGGING, chats, verbose_at_rest, adk_pc, adk_call, mcp_toolset>>

\* The variables of chat_with_agent and of the Google ADK CLI.
cli_vars == <<VERBOSE_LOGGING, chats, verbose_at_rest, adk_pc, adk_call, mcp_toolset>>

\* The variables of the agent modules, which the tool filter never touches.
agent_vars == <<mcp_client, shared_checkpointer, shared_store, shared_db, objects,
                agent_pc, factory, session_url, agents, invoked, requests>>

\* The variables of the caller, which a call in progress leaves alone.
caller_vars ==
    <<session_tools, refiltered, called, calls, previous, returned, agent_vars, cli_vars>>

\* The public function called and the argument it was given.
CalledAs(fn, arg) == [fn |-> fn, arg |-> arg]

\* The outcome of a call: how it ended, and the list or exception it gave.
Outcome(how, list, exc) == [pc |-> how, result |-> list, error |-> exc]
NoOutcome == Outcome("idle", <<>>, "")

\* One printed line.
Line(tag, name, n, info) == [tag |-> tag, name |-> name, n |-> n, info |-> info]

\* print(...) when debug is set.
DebugPrint(out, dbg, lines) == IF dbg THEN out \o lines ELSE out

\* No shared client; the value of an unset global (None).
NoClient == [present |-> FALSE, url |-> "", transport |-> ""]
NoObject == 0

\* No factory in progress.
NoFactory == [name |-> "", toolset |-> "", agent_name |-> "", mcp_url |-> "",
              transport |-> ""]

\* The chat_with_agent calls that may be in progress together.
MaxChats == 2

\* A chat_with_agent call not made yet. verbose is "None", "True" or "False";
\* at_start and at_end are VERBOSE_LOGGING when the call started and ended.
NoChat == [pc |-> "idle", verbose |-> "None", original_verbose |-> FALSE,
           at_start |-> FALSE, at_end |-> FALSE, overlapped |-> FALSE,
           printed |-> <<>>]

\* run_agent not called yet.
NoRun == [agent_name |-> "", query |-> FALSE, verbose |-> FALSE, quiet |-> FALSE,
          log |-> <<>>]

\* The agent modules as imported: every shared global is None, and
\* VERBOSE_LOGGING is true unless the environment says otherwise.
ModulesImported ==
    /\ mcp_client = NoClient
    /\ shared_checkpointer = NoObject
    /\ shared_store = NoObject
    /\ shared_db = NoObject
    /\ objects = 0
    /\ agent_pc = "none"
    /\ factory = NoFactory
    /\ session_url = ""
    /\ agents = <<>>
    /\ invoked = <<>>
    /\ requests = <<>>
    /\ VERBOSE_LOGGING = TRUE
    /\ chats = [c \in 1..MaxChats |-> NoChat]
    /\ verbose_at_rest = TRUE
    /\ adk_pc = "idle"
    /\ adk_call = NoRun
    /\ mcp_toolset = "none"

IdleState(tools) ==
    /\ session_tools = tools
    /\ pc = "idle"
    /\ annotation_filters = NoAnnotationFilters
    /\ custom_filter = NoCustomFilter
    /\ debug = FALSE
    /\ all_tools = <<>>
    /\ filtered_tools = <<>>
    /\ idx = 0
    /\ result = <<>>
    /\ error = ""
    /\ stdout = <<>>
    /\ refiltered = FALSE
    /\ evals = <<>>
    /\ called = CalledAs("", PyNone)
    /\ fetches = 0
    /\ calls = 0
    /\ previous = NoOutcome
    /\ returned = {}
    /\ ModulesImported

Init == \E tools \in ToolLists(ToolUniverse, MaxTools) : IdleState(tools)

\* The session lists one or two probe tools.
InitValues == \E tools \in ToolLists(ProbeTools, MaxProbes) : IdleState(tools)

\* The session lists tools annotated with the standard hints.
InitPresets == \E tools \in ToolLists(HintTools, MaxTools) : IdleState(tools)

\* The session lists some of the tools of RepeatTools.
InitRepeat == \E tools \in ToolLists(RepeatTools, MaxTools) : IdleState(tools)

\* The session lists tools with and without the hints.
InitSafe == \E tools \in ToolLists(SafeProbeTools, MaxTools) : IdleState(tools)

\* The agents' server lists some of AgentTools.
InitAgents == \E tools \in ToolLists(AgentTools, MaxTools) : IdleState(tools)

\* The server of the shared client lists one or both of two tools.
InitClients ==
    \E tools \in ToolLists({MemoryPools, SearchObjects}, MaxTools) : IdleState(tools)

\* The example scenario: the session lists the five tools, or some of them, in
\* any order.
InitScenario ==
    \E tools \in ToolLists(ScenarioTools, Cardinality(ScenarioTools)) : IdleState(tools)

----------------------------------------------------------------------------
\* load_filtered_mcp_tools

\* Mutant: the fetched list is kept in a module-level cache and served to
\* later calls.
load_mcp_tools_cached(tools) == IF all_tools # <<>> THEN all_tools ELSE tools

\* await load_mcp_tools(session)
load_mcp_tools(tools) == tools

\* `if not annotation_filters and not custom_filter:`
NoFiltersGiven(af, cf) == ~FiltersTruthy(af) /\ ~cf.present

\* Mutant: the unfiltered call returns an empty list.
NoFilterReturnEmpty(tools) == <<>>

\* `return all_tools` when no filter is given.
NoFilterReturn(tools) == tools

\* Mutant: a copy of the tool stripped of its metadata is appended.
IncludeToolStripped(filtered, tool) == Append(filtered, Tool(tool.name, NoMetadata))

\* Mutant: the tool is appended twice.
IncludeToolTwice(filtered, tool) == filtered \o <<tool, tool>>

\* Mutant: filtered_tools.insert(0, tool).
IncludeToolAtFront(filtered, tool) == <<tool>> \o filtered

\* filtered_tools.append(tool)
IncludeTool(filtered, tool) == Append(filtered, tool)

\* The "Applying filters: {annotation_filters or 'custom_filter'}" line.
ApplyingLine(af) ==
    IF FiltersTruthy(af)
    THEN Line("applying", "", 0, af.entries)
    ELSE Line("applying", "custom_filter", 0, <<>>)

\* The key=value pairs printed for an excluded tool.
AnnotationsInfo(tool, af) ==
    IF FiltersTruthy(af)
    THEN [k \in 1..Len(af.entries) |->
            Entry(af.entries[k].key, get_annotation_value(tool, af.entries[k].key))]
    ELSE <<>>

\* Mutant: with debug set the call prints and returns the whole list.
BeginCallDebugReturnsAll(tools, af, cf, dbg) ==
    /\ annotation_filters' = af
    /\ custom_filter' = cf
    /\ debug' = dbg
    /\ all_tools' = load_mcp_tools(tools)
    /\ fetches' = 1
    /\ filtered_tools' = <<>>
    /\ evals' = <<>>
    /\ error' = ""
    /\ stdout' = DebugPrint(<<>>, dbg, <<Line("loaded", "", Len(tools), <<>>)>>)
    /\ IF NoFiltersGiven(af, cf) \/ dbg
       THEN /\ result' = NoFilterReturn(load_mcp_tools(tools))
            /\ idx' = 0
            /\ pc' = "done"
       ELSE /\ result' = <<>>
            /\ idx' = 1
            /\ pc' = "loop"

\* The call as far as its loop: the fetch, and the return of the whole list
\* when no filter is given.
BeginCall(tools, af, cf, dbg) ==
    /\ annotation_filters' = af
    /\ custom_filter' = cf
    /\ debug' = dbg
    /\ all_tools' = load_mcp_tools(tools)
    /\ fetches' = 1
    /\ filtered_tools' = <<>>
    /\ evals' = <<>>
    /\ error' = ""
    /\ LET loaded == DebugPrint(<<>>, dbg, <<Line("loaded", "", Len(tools), <<>>)>>)
       IN  IF NoFiltersGiven(af, cf)
           THEN /\ stdout' = DebugPrint(loaded, dbg, <<Line("no_filters", "", 0, <<>>)>>)
                /\ result' = NoFilterReturn(load_mcp_tools(tools))
                /\ idx' = 0
                /\ pc' = "done"
           ELSE /\ stdout' = DebugPrint(loaded, dbg, <<ApplyingLine(af)>>)
                /\ result' = <<>>
                /\ idx' = 1
                /\ pc' = "loop"

load_filtered_mcp_tools(af, cf, dbg) ==
    /\ pc = "idle"
    /\ BeginCall(session_tools, af, cf, dbg)
    /\ called' = CalledAs("load_filtered_mcp_tools", PyNone)
    /\ calls' = calls + 1
    /\ UNCHANGED <<session_tools, refiltered, previous, returned, agent_vars, cli_vars>>

\* A convenience function: load_filtered_mcp_tools(session,
\* annotation_filters=af, debug=dbg), with no custom filter.
Convenience(fn, arg, af, dbg) ==
    /\ pc = "idle"
    /\ BeginCall(session_tools, af, NoCustomFilter, dbg)
    /\ called' = CalledAs(fn, arg)
    /\ calls' = calls + 1
    /\ UNCHANGED <<session_tools, refiltered, previous, returned, agent_vars, cli_vars>>

ReadOnlyFilters == AnnotationFilters(<<Entry("readOnlyHint", PyBool(TRUE))>>)
NonDestructiveFilters == AnnotationFilters(<<Entry("destructiveHint", PyBool(FALSE))>>)
ClosedWorldFilters == AnnotationFilters(<<Entry("openWorldHint", PyBool(FALSE))>>)
SafeFilters ==
    AnnotationFilters(<<Entry("readOnlyHint", PyBool(TRUE)),
                        Entry("destructiveHint", PyBool(FALSE)),
                        Entry("openWorldHint", PyBool(FALSE))>>)

\* Mutant: list(toolsets) whatever the argument is, which splits a string
\* into its characters.
ToolsetsListOfCharacters(toolsets) ==
    IF toolsets.kind # "str" THEN PyList(toolsets.items)
    ELSE IF toolsets.s = "performance"
    THEN PyList(<<PyStr("p"), PyStr("e"), PyStr("r"), PyStr("f"), PyStr("o"),
                  PyStr("r"), PyStr("m"), PyStr("a"), PyStr("n"), PyStr("c"),
                  PyStr("e")>>)
    ELSE PyList(<<PyStr("s"), PyStr("e"), PyStr("c"), PyStr("u"), PyStr("r"),
                  PyStr("i"), PyStr("t"), PyStr("y")>>)

\* toolsets_list = [toolsets] if isinstance(toolsets, str) else list(toolsets)
ToolsetsList(toolsets) ==
    IF toolsets.kind = "str" THEN PyList(<<toolsets>>) ELSE PyList(toolsets.items)

load_toolset_tools(toolsets, dbg) ==
    Convenience("load_toolset_tools", toolsets,
                AnnotationFilters(<<Entry("toolsets", ToolsetsList(toolsets))>>), dbg)

load_readonly_tools(dbg) ==
    Convenience("load_readonly_tools", PyNone, ReadOnlyFilters, dbg)

load_non_destructive_tools(dbg) ==
    Convenience("load_non_destructive_tools", PyNone, NonDestructiveFilters, dbg)

load_closed_world_tools(dbg) ==
    Convenience("load_closed_world_tools", PyNone, ClosedWorldFilters, dbg)

load_safe_tools(dbg) ==
    Convenience("load_safe_tools", PyNone, SafeFilters, dbg)

\* What the caller of a finished call got, and what the call had been given.
Returned ==
    [ call |-> called, nth |-> calls, tools |-> session_tools,
      filters |-> annotation_filters, custom |-> custom_filter,
      fetches |-> fetches, outcome |-> Outcome(pc, result, error) ]

\* The call is over: its caller has the list, or the exception.
Return ==
    /\ pc \in {"done", "raised"}
    /\ returned' = returned \cup {Returned}
    /\ pc' = "idle"
    /\ UNCHANGED <<session_tools, annotation_filters, custom_filter, debug,
                   all_tools, filtered_tools, idx, result, error, stdout,
                   refiltered, evals, called, fetches, calls, previous,
                   agent_vars, cli_vars>>

\* Between two calls the server's tool list changes.
SessionChanges ==
    /\ pc = "idle"
    /\ calls > 0
    /\ calls < MaxCalls
    /\ \E tools \in ToolLists(RepeatTools, MaxTools) :
          /\ tools # session_tools
          /\ session_tools' = tools
    /\ UNCHANGED <<pc, annotation_filters, custom_filter, debug, all_tools,
                   filtered_tools, idx, result, error, stdout, refiltered, evals,
                   called, fetches, calls, previous, returned, agent_vars, cli_vars>>

\* The same two filter keys, given in the other order.
SwapKeys(af) == AnnotationFilters(<<af.entries[2], af.entries[1]>>)

\* The caller repeats a finished two-key call with the keys in the other order.
CallWithKeysSwapped ==
    /\ pc = "idle"
    /\ \E r \in returned :
          /\ Len(r.filters.entries) = 2
          /\ \A q \in returned : q.filters # SwapKeys(r.filters)
          /\ BeginCall(session_tools, SwapKeys(r.filters), r.custom, FALSE)
    /\ called' = CalledAs("load_filtered_mcp_tools", PyNone)
    /\ calls' = calls + 1
    /\ UNCHANGED <<session_tools, refiltered, previous, returned, agent_vars, cli_vars>>

\* fn has not been called yet.
NotYetCalled(fn) == \A r \in returned : r.call.fn # fn

\* The caller filters again, with the same arguments, the list a finished call
\* returned: the session now lists exactly that list.
Refilter ==
    /\ pc = "done"
    /\ ~refiltered
    /\ session_tools' = result
    /\ refiltered' = TRUE
    /\ BeginCall(result, annotation_filters, custom_filter, debug)
    /\ calls' = calls + 1
    /\ UNCHANGED <<called, previous, returned, agent_vars, cli_vars>>

\* The caller repeats a finished call made without debug output, with the
\* same session and arguments, and debug=True.
CallWithDebug ==
    /\ pc \in {"done", "raised"}
    /\ ~debug
    /\ previous = NoOutcome
    /\ previous' = Outcome(pc, result, error)
    /\ BeginCall(session_tools, annotation_filters, custom_filter, TRUE)
    /\ calls' = calls + 1
    /\ UNCHANGED <<session_tools, refiltered, called, returned, agent_vars, cli_vars>>

\* The variables of the tool filter and of its caller.
filter_vars == <<session_tools, pc, annotation_filters, custom_filter, debug,
                 all_tools, filtered_tools, idx, result, error, stdout,
                 refiltered, evals, called, fetches, calls, previous, returned>>

\* The create_agent calls made in one run.
MaxRequests == 2

DEFAULT_MCP_URL == "http://127.0.0.1:3010/mcp"
DEFAULT_TRANSPORT == "streamable_http"
OtherMcpUrl == "http://10.1.1.7:3010/mcp"

\* An agent factory: its toolset and the name it gives its agent.
Factory(name, toolset, agent_name) ==
    [name |-> name, toolset |-> toolset, agent_name |-> agent_name,
     mcp_url |-> "", transport |-> ""]

create_performance_agent ==
    Factory("create_performance_agent", "performance", "IBM i Performance Monitor")
create_sysadmin_discovery_agent ==
    Factory("create_sysadmin_discovery_agent", "sysadmin_discovery",
            "IBM i SysAdmin Discovery")
create_sysadmin_browse_agent ==
    Factory("create_sysadmin_browse_agent", "sysadmin_browse", "IBM i SysAdmin Browser")

\* Mutant: the search factory loads the browse toolset.
create_sysadmin_search_agent_browse ==
    Factory("create_sysadmin_search_agent", "sysadmin_browse", "IBM i SysAdmin Search")

create_sysadmin_search_agent ==
    Factory("create_sysadmin_search_agent", "sysadmin_search", "IBM i SysAdmin Search")

AVAILABLE_AGENTS ==
    [ performance |-> create_performance_agent,
      discovery |-> create_sysadmin_discovery_agent,
      browse |-> create_sysadmin_browse_agent,
      search |-> create_sysadmin_search_agent ]

\* The agent types callers ask for; "backup" is not registered.
AgentTypes == DOMAIN AVAILABLE_AGENTS \cup {"backup"}

\* Mutant: an unknown agent type falls back to the performance agent.
LookupFactoryWithDefault(agent_type) ==
    IF agent_type \notin DOMAIN AVAILABLE_AGENTS
    THEN [ok |-> TRUE, factory |-> create_performance_agent, exc |-> ""]
    ELSE [ok |-> TRUE, factory |-> AVAILABLE_AGENTS[agent_type], exc |-> ""]

\* `if agent_type not in AVAILABLE_AGENTS: raise ValueError(...)`, else the
\* registered factory.
LookupFactory(agent_type) ==
    IF agent_type \notin DOMAIN AVAILABLE_AGENTS
    THEN [ok |-> FALSE, factory |-> NoFactory, exc |-> "ValueError"]
    ELSE [ok |-> TRUE, factory |-> AVAILABLE_AGENTS[agent_type], exc |-> ""]

\* Mutant: every call builds a client for the url it was given.
get_mcp_client_fresh(client, url, transport) ==
    [present |-> TRUE, url |-> url, transport |-> transport]

\* The shared MCP client: built on the first call, returned as it is later.
get_mcp_client(client, url, transport) ==
    IF ~client.present
    THEN [present |-> TRUE, url |-> url, transport |-> transport]
    ELSE client

\* get_shared_checkpointer, get_shared_store, get_shared_db: the instance held
\* by the global, a new one when the global is None.
get_shared(instance, fresh) == IF instance = NoObject THEN fresh ELSE instance

\* One create_agent call and how it ended.
Request(framework, agent_type, mcp_url, transport, outcome) ==
    [framework |-> framework, type |-> agent_type, mcp_url |-> mcp_url,
     transport |-> transport, outcome |-> outcome]

\* An agent as built.
Agent(framework, agent_type, name, tools, url, checkpointer, store, db) ==
    [framework |-> framework, type |-> agent_type, name |-> name, tools |-> tools,
     url |-> url, checkpointer |-> checkpointer, store |-> store, db |-> db]

\* create_agent of the LangGraph module: the registered factory runs as far
\* as get_mcp_client and returns its context manager.
create_agent(agent_type, mcp_url, transport) ==
    /\ pc = "idle"
    /\ agent_pc \in {"none", "yielded", "failed"}
    /\ Len(requests) < MaxRequests
    /\ LET found == LookupFactory(agent_type)
       IN  IF ~found.ok
           THEN /\ requests' = Append(requests, Request("langgraph", agent_type, mcp_url,
                                                    transport, found.exc))
                /\ UNCHANGED <<mcp_client, agent_pc, factory, invoked>>
           ELSE /\ requests' = Append(requests, Request("langgraph", agent_type, mcp_url,
                                                    transport, "invoked"))
                /\ invoked' = Append(invoked, found.factory.name)
                /\ mcp_client' = get_mcp_client(mcp_client, mcp_url, transport)
                /\ factory' = [found.factory EXCEPT !.mcp_url = mcp_url,
                                                    !.transport = transport]
                /\ agent_pc' = "created"
    /\ UNCHANGED <<shared_checkpointer, shared_store, shared_db, objects,
                   session_url, agents>>
    /\ UNCHANGED filter_vars
    /\ UNCHANGED cli_vars

\* `async with client.session("ibmi_tools") as session:`
EnterSession ==
    /\ agent_pc = "created"
    /\ session_url' = mcp_client.url
    /\ agent_pc' = "in_session"
    /\ UNCHANGED <<mcp_client, shared_checkpointer, shared_store, shared_db,
                   objects, factory, agents, invoked, requests>>
    /\ UNCHANGED filter_vars
    /\ UNCHANGED cli_vars

\* `tools = await load_toolset_tools(session, "<toolset>", debug=True)`
LoadToolset ==
    /\ agent_pc = "in_session"
    /\ load_toolset_tools(PyStr(factory.toolset), TRUE)

\* create_react_agent(model=llm, tools=tools, ..., checkpointer=
\* get_shared_checkpointer(), store=get_shared_store()); yield agent, session
BuildAgent ==
    /\ agent_pc = "in_session"
    /\ pc = "done"
    /\ LET checkpointer == get_shared(shared_checkpointer, objects + 1)
           made == IF checkpointer = shared_checkpointer THEN objects ELSE objects + 1
           store == get_shared(shared_store, made + 1)
       IN  /\ shared_checkpointer' = checkpointer
           /\ shared_store' = store
           /\ objects' = IF store = shared_store THEN made ELSE made + 1
           /\ agents' = Append(agents,
                   Agent("langgraph", requests[Len(requests)].type, factory.agent_name,
                         result, session_url, checkpointer, store, NoObject))
    /\ agent_pc' = "yielded"
    /\ pc' = "idle"
    /\ UNCHANGED <<mcp_client, shared_db, factory, session_url, invoked, requests>>
    /\ UNCHANGED <<session_tools, annotation_filters, custom_filter, debug,
                   all_tools, filtered_tools, idx, result, error, stdout,
                   refiltered, evals, called, fetches, calls, previous, returned,
                   cli_vars>>

\* load_toolset_tools raised: the exception leaves the context manager and no
\* agent is built.
FactoryFails ==
    /\ agent_pc = "in_session"
    /\ pc = "raised"
    /\ agent_pc' = "failed"
    /\ pc' = "idle"
    /\ UNCHANGED <<mcp_client, shared_checkpointer, shared_store, shared_db,
                   objects, factory, session_url, agents, invoked, requests>>
    /\ UNCHANGED <<session_tools, annotation_filters, custom_filter, debug,
                   all_tools, filtered_tools, idx, result, error, stdout,
                   refiltered, evals, called, fetches, calls, previous, returned,
                   cli_vars>>

\* create_agent of the agno module: the registered factory builds its own
\* FilteredMCPTools for the url and an Agent on the shared database.
agno_create_agent(agent_type, mcp_url) ==
    /\ pc = "idle"
    /\ agent_pc \in {"none", "yielded", "failed"}
    /\ Len(requests) < MaxRequests
    /\ LET found == LookupFactory(agent_type)
           db == get_shared(shared_db, objects + 1)
       IN  IF ~found.ok
           THEN /\ requests' = Append(requests, Request("agno", agent_type, mcp_url,
                                                    DEFAULT_TRANSPORT, found.exc))
                /\ UNCHANGED <<shared_db, objects, agents, invoked>>
           ELSE /\ requests' = Append(requests, Request("agno", agent_type, mcp_url,
                                                    DEFAULT_TRANSPORT, "invoked"))
                /\ invoked' = Append(invoked, found.factory.name)
                /\ shared_db' = db
                /\ objects' = IF db = shared_db THEN objects ELSE objects + 1
                /\ agents' = Append(agents,
                        Agent("agno", agent_type, found.factory.agent_name, <<>>,
                              mcp_url, NoObject, NoObject, db))
    /\ UNCHANGED <<mcp_client, shared_checkpointer, shared_store, agent_pc, factory,
                   session_url>>
    /\ UNCHANGED filter_vars
    /\ UNCHANGED cli_vars

\* No chat_with_agent call is suspended at `await agent.ainvoke(...)`.
NoChatInProgress == \A c \in 1..MaxChats : chats[c].pc # "awaiting"

\* `if verbose is not None: VERBOSE_LOGGING = verbose`
OverrideVerbose(current, verbose) ==
    IF verbose = "None" THEN current ELSE verbose = "True"

\* Mutant: the setting is restored after the return statement only, not in a
\* finally clause.
RestoreVerboseOnReturn(original_verbose, current, raised) ==
    IF raised THEN current ELSE original_verbose

\* `finally: VERBOSE_LOGGING = original_verbose`
RestoreVerbose(original_verbose, current, raised) == original_verbose

\* set_verbose_logging(enabled), called between chats.
set_verbose_logging(enabled) ==
    /\ NoChatInProgress
    /\ enabled # VERBOSE_LOGGING
    /\ VERBOSE_LOGGING' = enabled
    /\ verbose_at_rest' = enabled
    /\ UNCHANGED <<chats, adk_pc, adk_call, mcp_toolset>>
    /\ UNCHANGED <<filter_vars, agent_vars>>

\* chat_with_agent as far as `await agent.ainvoke(...)`: the global is saved
\* and overridden, and the user message is printed when it is true.
ChatStart(c, verbose) ==
    /\ chats[c].pc = "idle"
    /\ \A k \in 1..(c - 1) : chats[k].pc # "idle"
    /\ LET now == OverrideVerbose(VERBOSE_LOGGING, verbose)
       IN  /\ VERBOSE_LOGGING' = now
           /\ chats' = [k \in 1..MaxChats |->
                  IF k = c
                  THEN [pc |-> "awaiting", verbose |-> verbose,
                        original_verbose |-> VERBOSE_LOGGING,
                        at_start |-> VERBOSE_LOGGING, at_end |-> FALSE,
                        overlapped |-> ~NoChatInProgress,
                        printed |-> IF now THEN <<"user_message">> ELSE <<>>]
                  ELSE IF chats[k].pc = "awaiting"
                  THEN [chats[k] EXCEPT !.overlapped = TRUE]
                  ELSE chats[k]]
    /\ verbose_at_rest' = IF NoChatInProgress THEN VERBOSE_LOGGING ELSE verbose_at_rest
    /\ UNCHANGED <<adk_pc, adk_call, mcp_toolset>>
    /\ UNCHANGED <<filter_vars, agent_vars>>

\* The rest of chat_with_agent once agent.ainvoke is over: the messages are
\* printed and the response returned, or the exception passes through; the
\* finally clause runs either way.
ChatEnd(c, raised) ==
    /\ chats[c].pc = "awaiting"
    /\ LET restored == RestoreVerbose(chats[c].original_verbose, VERBOSE_LOGGING, raised)
       IN  /\ VERBOSE_LOGGING' = restored
           /\ chats' = [chats EXCEPT
                  ![c].pc = IF raised THEN "raised" ELSE "returned",
                  ![c].at_end = restored,
                  ![c].printed = IF ~raised /\ VERBOSE_LOGGING
                                 THEN Append(@, "final_response") ELSE @]
    /\ UNCHANGED <<verbose_at_rest, adk_pc, adk_call, mcp_toolset>>
    /\ UNCHANGED <<filter_vars, agent_vars>>

ChatReturns(c) == ChatEnd(c, FALSE)
ChatRaises(c) == ChatEnd(c, TRUE)

\* The keys of AVAILABLE_AGENTS of the Google ADK CLI.
AdkAgentNames == {"performance", "sysadmin_discovery", "sysadmin_browse", "sysadmin_search"}

\* logger.info / logger.error lines are written unless quiet is set.
AdkLog(quiet, lines) == IF quiet THEN <<>> ELSE lines

\* run_agent reaches a return or falls off its end; `what` is logged or
\* printed on the way.
AdkStep(next_pc, what) ==
    /\ adk_pc' = next_pc
    /\ adk_call' = [adk_call EXCEPT !.log = @ \o what]
    /\ UNCHANGED <<VERBOSE_LOGGING, chats, verbose_at_rest>>
    /\ UNCHANGED <<filter_vars, agent_vars>>

\* run_agent as far as `await AVAILABLE_AGENTS[agent_name]["create_fn"](...)`,
\* or its return for an unknown agent name.
run_agent(agent_name, query, verbose, quiet) ==
    /\ adk_pc = "idle"
    /\ adk_pc' = IF agent_name \in AdkAgentNames THEN "creating" ELSE "returned"
    /\ adk_call' = [agent_name |-> agent_name, query |-> query, verbose |-> verbose,
                    quiet |-> quiet,
                    log |-> IF agent_name \in AdkAgentNames
                            THEN AdkLog(quiet, <<"creating">>)
                            ELSE IF quiet THEN <<"print_unknown_agent">>
                            ELSE <<"unknown_agent", "list_agents">>]
    /\ UNCHANGED <<VERBOSE_LOGGING, chats, verbose_at_rest, mcp_toolset>>
    /\ UNCHANGED <<filter_vars, agent_vars>>

\* The factory returned (agent, toolset); without a query run_agent returns.
CreateFnReturns ==
    /\ adk_pc = "creating"
    /\ mcp_toolset' = "open"
    /\ IF adk_call.query
       THEN AdkStep("running", AdkLog(adk_call.quiet, <<"running_query">>))
       ELSE AdkStep("returned", AdkLog(adk_call.quiet, <<"created">>))

\* The factory raised: `except Exception` reports it and run_agent ends.
CreateFnRaises ==
    /\ adk_pc = "creating"
    /\ UNCHANGED mcp_toolset
    /\ AdkStep("returned", <<"error">>)

\* The session was created and every event of runner.run_async consumed.
QueryCompletes ==
    /\ adk_pc = "running"
    /\ UNCHANGED mcp_toolset
    /\ AdkStep("closing", <<"final_response">>)

\* Creating the session or running the query raised: `except Exception`
\* reports it and run_agent ends.
QueryRaises ==
    /\ adk_pc = "running"
    /\ UNCHANGED mcp_toolset
    /\ AdkStep("returned", <<"error">>)

\* `await toolset.close()`
ToolsetCloses ==
    /\ adk_pc = "closing"
    /\ mcp_toolset' = "closed"
    /\ AdkStep("returned", AdkLog(adk_call.quiet, <<"complete">>))

\* toolset.close() itself raised.
ToolsetCloseRaises ==
    /\ adk_pc = "closing"
    /\ mcp_toolset' = "close_raised"
    /\ AdkStep("returned", <<"error">>)

\* One iteration of `for tool in all_tools`.
FilterTool ==
    /\ pc = "loop"
    /\ idx <= Len(all_tools)
    /\ LET tool == all_tools[idx]
           r == should_include_tool(tool, annotation_filters, custom_filter)
       IN  /\ evals' = r.evals
           /\ IF ~r.ok
              THEN /\ pc' = "raised"
                   /\ error' = r.exc
                   /\ UNCHANGED <<filtered_tools, idx, stdout>>
              ELSE /\ IF Truthy(r.value)
                      THEN /\ filtered_tools' = IncludeTool(filtered_tools, tool)
                           /\ stdout' = DebugPrint(stdout, debug,
                                           <<Line("include", tool.name, 0, <<>>)>>)
                      ELSE /\ filtered_tools' = filtered_tools
                           /\ stdout' = DebugPrint(stdout, debug,
                                           <<Line("exclude", tool.name, 0,
                                                  AnnotationsInfo(tool, annotation_filters))>>)
                   /\ idx' = idx + 1
                   /\ UNCHANGED <<pc, error>>
    /\ UNCHANGED <<annotation_filters, custom_filter, debug, all_tools, result,
                   fetches>>
    /\ UNCHANGED caller_vars

\* The loop is over: `return filtered_tools`.
ReturnFiltered ==
    /\ pc = "loop"
    /\ idx > Len(all_tools)
    /\ stdout' = DebugPrint(stdout, debug,
                    <<Line("filtered", "", Len(filtered_tools), <<>>)>>)
    /\ result' = filtered_tools
    /\ pc' = "done"
    /\ UNCHANGED <<annotation_filters, custom_filter, debug, all_tools,
                   filtered_tools, idx, error, evals, fetches>>
    /\ UNCHANGED caller_vars

Next ==
    \/ \E af \in FilterSpecs, cf \in CustomFilters, dbg \in BOOLEAN :
         load_filtered_mcp_tools(af, cf, dbg)
    \/ FilterTool
    \/ ReturnFiltered

Spec == Init /\ [][Next]_vars

\* Probe tools filtered by one filter value.
NextValues ==
    \/ \E af \in ProbeFilters, dbg \in BOOLEAN :
         load_filtered_mcp_tools(af, NoCustomFilter, dbg)
    \/ FilterTool
    \/ ReturnFiltered

SpecValues == InitValues /\ [][NextValues]_vars

\* Calls whose filters mix predicates with other keys.
NextOrder ==
    \/ \E af \in OrderFilters, cf \in CustomFilters, dbg \in BOOLEAN :
         load_filtered_mcp_tools(af, cf, dbg)
    \/ FilterTool
    \/ ReturnFiltered

SpecOrder == Init /\ [][NextOrder]_vars

\* Calls without debug output, each repeated with debug output.
NextDebug ==
    \/ \E af \in OrderFilters, cf \in CustomFilters :
         load_filtered_mcp_tools(af, cf, FALSE)
    \/ FilterTool
    \/ ReturnFiltered
    \/ CallWithDebug

SpecDebug == Init /\ [][NextDebug]_vars

\* The four hint presets, each called once, in any order.
NextPresets ==
    \/ NotYetCalled("load_readonly_tools") /\ load_readonly_tools(FALSE)
    \/ NotYetCalled("load_non_destructive_tools") /\ load_non_destructive_tools(FALSE)
    \/ NotYetCalled("load_closed_world_tools") /\ load_closed_world_tools(FALSE)
    \/ NotYetCalled("load_safe_tools") /\ load_safe_tools(FALSE)
    \/ FilterTool
    \/ ReturnFiltered
    \/ Return

SpecPresets == InitPresets /\ [][NextPresets]_vars

\* load_toolset_tools and load_filtered_mcp_tools, each called once, in any
\* order.
NextToolsets ==
    \/ \E toolsets \in ToolsetsArguments :
         NotYetCalled("load_toolset_tools") /\ load_toolset_tools(toolsets, FALSE)
    \/ \E af \in ToolsetsFilters :
         /\ NotYetCalled("load_filtered_mcp_tools")
         /\ load_filtered_mcp_tools(af, NoCustomFilter, FALSE)
    \/ FilterTool
    \/ ReturnFiltered
    \/ Return

SpecToolsets == Init /\ [][NextToolsets]_vars

\* Up to MaxCalls calls, one after another, the tool list changing in between.
NextRepeat ==
    \/ \E arguments \in RepeatArguments :
         /\ calls < MaxCalls
         /\ load_filtered_mcp_tools(arguments[1], arguments[2], FALSE)
    \/ FilterTool
    \/ ReturnFiltered
    \/ Return
    \/ SessionChanges

SpecRepeat == InitRepeat /\ [][NextRepeat]_vars

\* A two-key call, then the same call with the keys in the other order.
NextSwap ==
    \/ \E af \in TwoKeyFilters :
         /\ calls = 0
         /\ load_filtered_mcp_tools(af, NoCustomFilter, FALSE)
    \/ FilterTool
    \/ ReturnFiltered
    \/ Return
    \/ CallWithKeysSwapped

SpecSwap == Init /\ [][NextSwap]_vars

\* load_safe_tools on tools that lack hints.
NextSafe ==
    \/ \E dbg \in BOOLEAN : load_safe_tools(dbg)
    \/ FilterTool
    \/ ReturnFiltered

SpecSafe == InitSafe /\ [][NextSafe]_vars

\* Agents of every type created one after another from one server.
NextAgents ==
    \/ \E agent_type \in AgentTypes :
         create_agent(agent_type, DEFAULT_MCP_URL, DEFAULT_TRANSPORT)
    \/ \E agent_type \in AgentTypes : agno_create_agent(agent_type, DEFAULT_MCP_URL)
    \/ EnterSession
    \/ LoadToolset
    \/ FilterTool
    \/ ReturnFiltered
    \/ BuildAgent
    \/ FactoryFails

SpecAgents == InitAgents /\ [][NextAgents]_vars

\* LangGraph agents created one after another for different servers.
NextClients ==
    \/ \E agent_type \in {"performance", "search"},
          mcp_url \in {DEFAULT_MCP_URL, OtherMcpUrl},
          transport \in {DEFAULT_TRANSPORT, "sse"} :
         create_agent(agent_type, mcp_url, transport)
    \/ EnterSession
    \/ LoadToolset
    \/ FilterTool
    \/ ReturnFiltered
    \/ BuildAgent

SpecClients == InitClients /\ [][NextClients]_vars

\* chat_with_agent calls made one after another.
NextChat ==
    \/ \E enabled \in BOOLEAN : set_verbose_logging(enabled)
    \/ \E c \in 1..MaxChats, verbose \in {"None", "True", "False"} :
         NoChatInProgress /\ ChatStart(c, verbose)
    \/ \E c \in 1..MaxChats : ChatReturns(c)
    \/ \E c \in 1..MaxChats : ChatRaises(c)

InitChat == IdleState(<<>>)

SpecChat == InitChat /\ [][NextChat]_vars

\* chat_with_agent calls that may overlap at the await.
NextChatOverlap ==
    \/ \E enabled \in BOOLEAN : set_verbose_logging(enabled)
    \/ \E c \in 1..MaxChats, verbose \in {"None", "True", "False"} :
         ChatStart(c, verbose)
    \/ \E c \in 1..MaxChats : ChatReturns(c)
    \/ \E c \in 1..MaxChats : ChatRaises(c)

SpecChatOverlap == InitChat /\ [][NextChatOverlap]_vars

\* One run of the Google ADK command line.
NextAdk ==
    \/ \E agent_name \in AdkAgentNames \cup {"backup"}, query, verbose, quiet \in BOOLEAN :
         run_agent(agent_name, query, verbose, quiet)
    \/ CreateFnReturns
    \/ CreateFnRaises
    \/ QueryCompletes
    \/ QueryRaises
    \/ ToolsetCloses
    \/ ToolsetCloseRaises

InitAdk == IdleState(<<>>)

SpecAdk == InitAdk /\ [][NextAdk]_vars

\* Calls without debug output, each result filtered once more.
NextRefilter ==
    \/ \E af \in FilterSpecs, cf \in CustomFilters :
         load_filtered_mcp_tools(af, cf, FALSE)
    \/ FilterTool
    \/ ReturnFiltered
    \/ Refilter

SpecRefilter == Init /\ [][NextRefilter]_vars

\* The example scenario, filtered by one annotation key.
NextScenario ==
    \/ \E af \in SingleKeyFilters, dbg \in BOOLEAN :
         load_filtered_mcp_tools(af, NoCustomFilter, dbg)
    \/ FilterTool
    \/ ReturnFiltered

SpecScenario == InitScenario /\ [][NextScenario]_vars

----------------------------------------------------------------------------
\* Properties

\* The tool is in the list returned to the caller.
InResult(tool) == \E k \in 1..Len(result) : result[k] = tool

\* The tool is in the list the call fetched.
Fetched(tool) == \E k \in 1..Len(all_tools) : all_tools[k] = tool

\* sub is full with some positions left out: the same elements in the same
\* order, each position of full used at most once.
RECURSIVE IsSubsequenceFrom(_, _, _, _)
IsSubsequenceFrom(sub, full, a, b) ==
    IF a > Len(sub) THEN TRUE
    ELSE IF b > Len(full) THEN FALSE
    ELSE IF sub[a] = full[b] THEN IsSubsequenceFrom(sub, full, a + 1, b + 1)
    ELSE IsSubsequenceFrom(sub, full, a, b + 1)

IsSubsequence(sub, full) == IsSubsequenceFrom(sub, full, 1, 1)

\* The call's annotation_filters is the one-key dict {key: value}.
FilterIs(key, value) == annotation_filters = AnnotationFilters(<<Entry(key, value)>>)

\* A finished call that was given annotation filters only.
DoneWithoutCustom == pc = "done" /\ ~custom_filter.present

\* C1: called with no annotation_filters (absent, or the empty dict) and no
\* custom_filter, the call returns the session's tool list unchanged: the same
\* tools in the same order.
NoFiltersReturnsAll ==
    ( /\ pc = "done"
      /\ annotation_filters \in {NoAnnotationFilters, AnnotationFilters(<<>>)}
      /\ custom_filter = NoCustomFilter )
    => result = session_tools

NoFiltersReturnsAllWitness ==
    /\ pc = "done"
    /\ annotation_filters = AnnotationFilters(<<>>)
    /\ custom_filter = NoCustomFilter
    /\ Len(session_tools) >= 2
    /\ result = session_tools

\* C2: at every point of a call the tools kept so far, and the list returned,
\* are a subsequence of the fetched list: no longer, nothing fabricated, no
\* position used twice, the order kept.
ResultIsSubsequence ==
    /\ IsSubsequence(filtered_tools, all_tools)
    /\ Len(filtered_tools) <= Len(all_tools)
    /\ IsSubsequence(result, session_tools)
    /\ Len(result) <= Len(session_tools)

ResultIsSubsequenceWitness ==
    /\ pc = "done"
    /\ FiltersTruthy(annotation_filters)
    /\ custom_filter.present
    /\ Len(result) >= 2
    /\ Len(result) < Len(session_tools)

\* Two lists share an element.
SharesElement(xs, ys) ==
    \E a \in 1..Len(xs) : \E b \in 1..Len(ys) : xs[a] = ys[b]

PerformanceList == PyList(<<PyStr("performance")>>)
SecurityList == PyList(<<PyStr("security")>>)
SysadminSecurityList == PyList(<<PyStr("sysadmin"), PyStr("security")>>)

\* C3: with a list filter value, a tool whose annotation is a list is kept
\* exactly when the two lists share an element; the tool with toolsets
\* [performance, sysadmin] passes [performance] and [sysadmin, security] and
\* fails [security].
ListAnnotationMatchesByIntersection ==
    DoneWithoutCustom =>
        /\ \A k \in 1..Len(all_tools) :
             LET value == get_annotation_value(all_tools[k], "toolsets")
             IN  ( /\ Len(annotation_filters.entries) = 1
                   /\ annotation_filters.entries[1].key = "toolsets"
                   /\ annotation_filters.entries[1].value.kind = "list"
                   /\ value.kind = "list" )
                 => ( InResult(all_tools[k]) <=>
                        SharesElement(value.items,
                                      annotation_filters.entries[1].value.items) )
        /\ Fetched(SystemStatus) =>
             /\ FilterIs("toolsets", PerformanceList) => InResult(SystemStatus)
             /\ FilterIs("toolsets", SysadminSecurityList) => InResult(SystemStatus)
             /\ FilterIs("toolsets", SecurityList) => ~InResult(SystemStatus)

ListAnnotationMatchesByIntersectionWitness ==
    /\ DoneWithoutCustom
    /\ FilterIs("toolsets", SysadminSecurityList)
    /\ InResult(SystemStatus)
    /\ InResult(AuditJournal)
    /\ Fetched(MemoryPools)
    /\ ~InResult(MemoryPools)

\* The key of one filter entry matches the tool.
KeyMatches(tool, entry) ==
    LET m == annotation_value_matches_filter(
                 get_annotation_value(tool, entry.key), entry.value)
    IN  m.ok /\ Truthy(m.value)

PerformanceAndReadOnly ==
    AnnotationFilters(<<Entry("toolsets", PerformanceList),
                        Entry("readOnlyHint", PyBool(TRUE))>>)

\* C4: a returned tool matches every key of annotation_filters, and without a
\* custom filter the tools returned are exactly those matching every key; the
\* tool in the performance toolset with readOnlyHint = false passes
\* {toolsets: [performance]} and fails {toolsets: [performance],
\* readOnlyHint: true}.
FilterKeysCombineWithAnd ==
    pc = "done" =>
        /\ \A k \in 1..Len(all_tools) :
             LET every == \A e \in 1..Len(annotation_filters.entries) :
                              KeyMatches(all_tools[k], annotation_filters.entries[e])
             IN  /\ InResult(all_tools[k]) => every
                 /\ ~custom_filter.present => (InResult(all_tools[k]) <=> every)
        /\ (~custom_filter.present /\ Fetched(MemoryPools)) =>
             /\ FilterIs("toolsets", PerformanceList) => InResult(MemoryPools)
             /\ annotation_filters = PerformanceAndReadOnly => ~InResult(MemoryPools)

FilterKeysCombineWithAndWitness ==
    /\ DoneWithoutCustom
    /\ annotation_filters = PerformanceAndReadOnly
    /\ Fetched(MemoryPools)
    /\ ~InResult(MemoryPools)
    /\ InResult(SystemStatus)

\* The tool's readOnlyHint annotation is the boolean b.
ReadOnlyHintIs(tool, b) == get_annotation_value(tool, "readOnlyHint") = PyBool(b)

\* C5: a tool with readOnlyHint = true passes {readOnlyHint: true} and fails
\* {readOnlyHint: false}; a tool with readOnlyHint = false passes
\* {readOnlyHint: false} and fails {readOnlyHint: true}.
ReadOnlyHintScalarMatch ==
    DoneWithoutCustom =>
        \A k \in 1..Len(all_tools) : \A hint, wanted \in BOOLEAN :
            ( ReadOnlyHintIs(all_tools[k], hint)
              /\ FilterIs("readOnlyHint", PyBool(wanted)) )
            => ( InResult(all_tools[k]) <=> (hint = wanted) )

ReadOnlyHintScalarMatchWitness ==
    /\ DoneWithoutCustom
    /\ FilterIs("readOnlyHint", PyBool(FALSE))
    /\ InResult(MemoryPools)
    /\ Fetched(SystemStatus)
    /\ ~InResult(SystemStatus)

\* The tool's metadata holds no entry for the key (or there is no metadata).
LacksAnnotation(tool, key) ==
    ~(tool.metadata.present
      /\ \E k \in 1..Len(tool.metadata.entries) : tool.metadata.entries[k].key = key)

\* The call's annotation_filters is keyed on toolsets.
ToolsetsFilterEntries ==
    { e \in 1..Len(annotation_filters.entries) :
        annotation_filters.entries[e].key = "toolsets" }

\* C6 as stated: a tool without a toolsets annotation fails every filter
\* keyed on toolsets, whatever the filter value, and the lookup raises nothing.
MissingToolsetsFailsEveryFilter ==
    /\ pc = "done" =>
         \A k \in 1..Len(all_tools) :
            (LacksAnnotation(all_tools[k], "toolsets") /\ ToolsetsFilterEntries # {})
            => ~InResult(all_tools[k])
    /\ pc = "raised" => ~LacksAnnotation(all_tools[idx], "toolsets")

\* A filter value that None can match: None itself, a list holding None, or a
\* predicate.
MayMatchNone(filter_value) ==
    \/ filter_value.kind \in {"None", "callable"}
    \/ /\ filter_value.kind = "list"
       /\ \E j \in 1..Len(filter_value.items) : filter_value.items[j].kind = "None"

\* C6, amended: a tool without a toolsets annotation (or without metadata)
\* reads as None for the key and raises nothing. It fails every filter keyed
\* on toolsets whose value is a non-null scalar or a list not holding null.
\* Under {toolsets: v} alone it passes when v is null or a list holding null,
\* and when v is a predicate exactly when the predicate returns a true value
\* for None.
MissingToolsetsMatchesAsNone ==
    /\ pc = "done" =>
         \A k \in 1..Len(all_tools) : \A e \in ToolsetsFilterEntries :
            LET tool == all_tools[k]
                filter_value == annotation_filters.entries[e].value
                alone == Len(annotation_filters.entries) = 1 /\ ~custom_filter.present
                answer == CallPredicate(filter_value, PyNone)
            IN  LacksAnnotation(tool, "toolsets") =>
                  /\ ~MayMatchNone(filter_value) => ~InResult(tool)
                  /\ (alone /\ filter_value.kind \in {"None", "list"}
                        /\ MayMatchNone(filter_value)) => InResult(tool)
                  /\ (alone /\ filter_value.kind = "callable") =>
                        (InResult(tool) <=> (answer.ok /\ Truthy(answer.value)))
    /\ pc = "raised" => ~LacksAnnotation(all_tools[idx], "toolsets")

MissingToolsetsMatchesAsNoneWitness ==
    /\ DoneWithoutCustom
    /\ FilterIs("toolsets", PyNone)
    /\ InResult(Ping)
    /\ InResult(Echo)
    /\ Fetched(MemoryPools)
    /\ ~InResult(MemoryPools)

\* The tool alone decides whether it is kept.
KeptAlone(tool) ==
    LET r == should_include_tool(tool, annotation_filters, custom_filter)
    IN  r.ok /\ Truthy(r.value)

\* The tool is one the custom filter raises for.
CustomFilterRaisesFor(tool) ==
    custom_filter.present /\ tool.name \in custom_filter.raises

\* The tools of a list the custom filter does not raise for.
WithoutRaising(tools) == SelectSeq(tools, LAMBDA t : ~CustomFilterRaisesFor(t))

\* C7: a tool the custom filter raises for is left out, the exception never
\* reaches the caller, and the loop goes on: the list returned is what the
\* other tools alone give, each kept or dropped on its own account.
CustomFilterErrorExcludesOnlyThatTool ==
    /\ error # "RuntimeError"
    /\ pc = "raised" => ~CustomFilterRaisesFor(all_tools[idx])
    /\ (pc = "done" /\ custom_filter.present) =>
         /\ \A k \in 1..Len(all_tools) :
              CustomFilterRaisesFor(all_tools[k]) => ~InResult(all_tools[k])
         /\ result = SelectSeq(WithoutRaising(all_tools), KeptAlone)

CustomFilterErrorExcludesOnlyThatToolWitness ==
    /\ pc = "done"
    /\ Len(all_tools) = 3
    /\ CustomFilterRaisesFor(all_tools[2])
    /\ result = <<all_tools[1], all_tools[3]>>

\* C8 as stated: once the list is fetched, the filter pass signals no error
\* to the caller, whatever the annotation values are.
FilterPassSignalsNoError == pc # "raised"

\* C9: filtering a returned list again with the same arguments returns that
\* list, and raises nothing.
FilteringIsIdempotent ==
    refiltered =>
        /\ pc # "raised"
        /\ pc = "done" => result = session_tools

FilteringIsIdempotentWitness ==
    /\ refiltered
    /\ pc = "done"
    /\ FiltersTruthy(annotation_filters)
    /\ custom_filter.present
    /\ Len(result) >= 2

\* C10: the list [A, B, C, D, E] filtered with {toolsets: [performance]}
\* gives exactly [A, C].
ScenarioReturnsAThenC ==
    ( /\ pc = "done"
      /\ all_tools = <<ScenarioA, ScenarioB, ScenarioC, ScenarioD, ScenarioE>>
      /\ FilterIs("toolsets", PerformanceList) )
    => result = <<ScenarioA, ScenarioC>>

ScenarioReturnsAThenCWitness ==
    /\ pc = "done"
    /\ session_tools = <<ScenarioA, ScenarioB, ScenarioC, ScenarioD, ScenarioE>>
    /\ FilterIs("toolsets", PerformanceList)
    /\ result = <<ScenarioA, ScenarioC>>

\* The loop has handled at least one tool; LastTool is the latest one.
Processed == pc = "raised" \/ (pc \in {"loop", "done"} /\ idx > 1)
LastTool == IF pc = "raised" THEN all_tools[idx] ELSE all_tools[idx - 1]

\* The custom filter does not let the tool through: it returns a false value
\* or raises.
CustomFilterRejects(tool) ==
    LET r == CallCustomFilter(custom_filter, tool)
    IN  custom_filter.present /\ (~r.ok \/ ~Truthy(r.value))

\* C11: for each tool the custom filter is evaluated first, before any
\* annotation filter; when it returns false or raises the tool is left out
\* whatever annotation_filters is, and nothing else is evaluated for the tool.
CustomFilterEvaluatedFirst ==
    (Processed /\ custom_filter.present) =>
        /\ evals # <<>>
        /\ evals[1] = CustomFilterEval
        /\ \A k \in 2..Len(evals) : evals[k].fn = "annotation_filter"
        /\ CustomFilterRejects(LastTool) =>
             /\ evals = <<CustomFilterEval>>
             /\ pc # "raised"
             /\ \A k \in 1..Len(filtered_tools) : filtered_tools[k] # LastTool

CustomFilterEvaluatedFirstWitness ==
    /\ Processed
    /\ CustomFilterRejects(LastTool)
    /\ Len(annotation_filters.entries) = 2
    /\ \E e \in 1..2 : annotation_filters.entries[e].value.kind = "callable"
    /\ \A e \in 1..2 : KeyMatches(LastTool, annotation_filters.entries[e])
    /\ evals = <<CustomFilterEval>>

\* The evaluations of filter keys made for the last tool.
KeyEvals == SelectSeq(evals, LAMBDA e : e.fn = "annotation_filter")

\* C20: the keys are evaluated in the mapping's order and evaluation stops at
\* the first key that does not match: every key evaluated before the last one
\* matched, and no key behind a failing key is evaluated (a predicate there is
\* not called).
KeyEvaluationShortCircuits ==
    Processed =>
        LET entries == annotation_filters.entries
        IN  /\ Len(KeyEvals) <= Len(entries)
            /\ \A k \in 1..Len(KeyEvals) : KeyEvals[k] = KeyEval(entries[k])
            /\ \A k \in 1..Len(KeyEvals) :
                 k < Len(KeyEvals) => KeyMatches(LastTool, entries[k])
            /\ \A j \in 1..Len(entries) :
                 (\E k \in 1..(j - 1) : ~KeyMatches(LastTool, entries[k]))
                 => j > Len(KeyEvals)
            /\ (~CustomFilterRejects(LastTool) /\ Len(KeyEvals) < Len(entries))
                 => /\ KeyEvals # <<>>
                    /\ ~KeyMatches(LastTool, entries[Len(KeyEvals)])

KeyEvaluationShortCircuitsWitness ==
    /\ Processed
    /\ ~custom_filter.present
    /\ LastTool = MemoryPools
    /\ annotation_filters =
         AnnotationFilters(<<Entry("readOnlyHint", PyBool(TRUE)),
                             Entry("toolsets", NonEmptyPredicate)>>)
    /\ evals = <<KeyEval(Entry("readOnlyHint", PyBool(TRUE)))>>

\* The call was given the one-key filter {toolsets: v} and no custom filter;
\* ToolsetsFilter is v.
OneToolsetsFilter ==
    /\ ~custom_filter.present
    /\ Len(annotation_filters.entries) = 1
    /\ annotation_filters.entries[1].key = "toolsets"
ToolsetsFilter == annotation_filters.entries[1].value

\* The value stored in the tool's metadata under the key, None when there is
\* no such entry.
RawAnnotation(tool, key) ==
    IF LacksAnnotation(tool, key) THEN PyNone
    ELSE LET k == CHOOSE k \in 1..Len(tool.metadata.entries) :
                      tool.metadata.entries[k].key = key
         IN  tool.metadata.entries[k].value

\* v is an element of the list xs, as Python compares elements (a bool is the
\* int 0 or 1).
IsElement(v, xs) ==
    \E j \in 1..Len(xs) :
        \/ xs[j] = v
        \/ xs[j].kind \in {"bool", "int"} /\ v.kind \in {"bool", "int"} /\ xs[j].n = v.n

\* C12: with a list filter value, a tool whose annotation is a single value
\* (not a list) is kept exactly when that value is an element of the filter
\* list.
ScalarAnnotationMatchesByMembership ==
    (pc = "done" /\ OneToolsetsFilter /\ ToolsetsFilter.kind = "list") =>
        \A k \in 1..Len(all_tools) :
            LET value == RawAnnotation(all_tools[k], "toolsets")
            IN  value.kind # "list" =>
                  (InResult(all_tools[k]) <=> IsElement(value, ToolsetsFilter.items))

ScalarAnnotationMatchesByMembershipWitness ==
    /\ pc = "done"
    /\ OneToolsetsFilter
    /\ ToolsetsFilter = PyList(<<PyStr("security"), PyInt(0)>>)
    /\ Len(all_tools) = 2
    /\ RawAnnotation(all_tools[1], "toolsets") = PyStr("performance")
    /\ RawAnnotation(all_tools[2], "toolsets") = PyStr("security")
    /\ result = <<all_tools[2]>>

\* C13 as stated: a scalar filter value matches only an annotation of the same
\* type and value (true does not match 1, false does not match 0, an int does
\* not match a bool).
ScalarMatchIsTypeExact ==
    (pc = "done" /\ OneToolsetsFilter
       /\ ToolsetsFilter.kind \in {"str", "bool", "int"}) =>
        \A k \in 1..Len(all_tools) :
            InResult(all_tools[k]) =>
                RawAnnotation(all_tools[k], "toolsets") = ToolsetsFilter

\* C14: a predicate filter value is applied to the tool's raw annotation
\* value, None when the annotation is absent; the tool is kept exactly when
\* the predicate returns a true value, and a predicate that raises counts as
\* no match, with no exception reaching the caller.
PredicateAppliedToRawValue ==
    (OneToolsetsFilter /\ ToolsetsFilter.kind = "callable") =>
        /\ pc # "raised"
        /\ pc = "done" =>
             \A k \in 1..Len(all_tools) :
                LET answer == CallPredicate(ToolsetsFilter,
                                            RawAnnotation(all_tools[k], "toolsets"))
                IN  InResult(all_tools[k]) <=> (answer.ok /\ Truthy(answer.value))

PredicateAppliedToRawValueWitness ==
    /\ pc = "done"
    /\ OneToolsetsFilter
    /\ ToolsetsFilter = NonEmptyPredicate
    /\ Len(all_tools) = 2
    /\ all_tools[1] = Tool("probe_a", NoMetadata)
    /\ RawAnnotation(all_tools[2], "toolsets") = PyList(<<PyStr("performance")>>)
    /\ result = <<all_tools[2]>>

\* C15: the debug flag never affects the result: the same session and filter
\* arguments give the same list, or the same exception, with debug output as
\* without it.
DebugLeavesResultAlone ==
    (previous # NoOutcome /\ pc \in {"done", "raised"}) =>
        Outcome(pc, result, error) = previous

DebugLeavesResultAloneWitness ==
    /\ previous # NoOutcome
    /\ pc = "done"
    /\ debug
    /\ stdout # <<>>
    /\ result # <<>>
    /\ Len(result) < Len(all_tools)
    /\ result = previous.result

\* The tool is in the list.
ListHas(list, tool) == \E k \in 1..Len(list) : list[k] = tool

\* The finished calls of fn.
ReturnedBy(fn) == { r \in returned : r.call.fn = fn }

\* C16: load_safe_tools returns exactly the tools that load_readonly_tools,
\* load_non_destructive_tools and load_closed_world_tools all return for the
\* same session, in the order of the fetched list.
SafeToolsAreTheIntersection ==
    \A safe \in ReturnedBy("load_safe_tools") :
    \A ro \in ReturnedBy("load_readonly_tools") :
    \A nd \in ReturnedBy("load_non_destructive_tools") :
    \A cw \in ReturnedBy("load_closed_world_tools") :
        LET InAll(tool) == /\ ListHas(ro.outcome.result, tool)
                           /\ ListHas(nd.outcome.result, tool)
                           /\ ListHas(cw.outcome.result, tool)
        IN  /\ safe.outcome.pc = "done"
            /\ safe.outcome.result = SelectSeq(safe.tools, InAll)

SafeToolsAreTheIntersectionWitness ==
    \E safe \in ReturnedBy("load_safe_tools") :
        /\ ReturnedBy("load_readonly_tools") # {}
        /\ ReturnedBy("load_non_destructive_tools") # {}
        /\ ReturnedBy("load_closed_world_tools") # {}
        /\ safe.tools = <<ListJobs, WebLookup, ReadStatus>>
        /\ safe.outcome.result = <<ListJobs, ReadStatus>>

\* The mapping {toolsets: names}, with a single string s standing for [s].
ToolsetsMapping(names) ==
    AnnotationFilters(<<Entry("toolsets",
                              IF names.kind = "str" THEN PyList(<<names>>) ELSE names)>>)

\* C17: load_toolset_tools(names) filters with, and returns what,
\* load_filtered_mcp_tools called with {toolsets: names} and no custom filter
\* does; a single string s is the one-element list [s], never split into
\* characters.
ToolsetToolsIsToolsetsFilter ==
    \A w \in ReturnedBy("load_toolset_tools") :
        /\ w.filters = ToolsetsMapping(w.call.arg)
        /\ w.custom = NoCustomFilter
        /\ \A d \in ReturnedBy("load_filtered_mcp_tools") :
              (d.tools = w.tools /\ d.filters = ToolsetsMapping(w.call.arg)
                 /\ d.custom = NoCustomFilter)
              => d.outcome = w.outcome

ToolsetToolsIsToolsetsFilterWitness ==
    \E w \in ReturnedBy("load_toolset_tools") :
    \E d \in ReturnedBy("load_filtered_mcp_tools") :
        /\ w.call.arg = PyStr("performance")
        /\ d.filters = ToolsetsMapping(PyStr("performance"))
        /\ w.tools = <<AuditJournal, SystemStatus, MemoryPools>>
        /\ w.outcome.result = <<SystemStatus, MemoryPools>>
        /\ d.outcome = w.outcome

\* The two calls were given the same tool list and the same arguments.
SameCall(r1, r2) ==
    /\ r1.call = r2.call
    /\ r1.tools = r2.tools
    /\ r1.filters = r2.filters
    /\ r1.custom = r2.custom

\* C18: no state is kept between calls: every call fetches the tool list
\* once, and a later call returns what the first call returned on the same
\* tool list and arguments, whatever was called in between.
CallsShareNoState ==
    /\ pc # "idle" => fetches = 1
    /\ \A r \in returned : r.fetches = 1
    /\ \A first, later \in returned :
          (first.nth = 1 /\ later.nth > 1 /\ SameCall(first, later))
          => later.outcome = first.outcome

CallsShareNoStateWitness ==
    \E first, between, later \in returned :
        /\ first.nth = 1 /\ between.nth = 2 /\ later.nth = 3
        /\ SameCall(first, later)
        /\ first.tools = <<SystemStatus>>
        /\ between.tools = <<NestedToolsets, SystemStatus>>
        /\ between.outcome.pc = "raised"
        /\ later.outcome = Outcome("done", <<SystemStatus>>, "")

\* C19: the filter pass changes no tool descriptor and not the fetched list:
\* the list the call holds stays the list the session gave, and every tool
\* collected or returned is one of its tools, metadata and all.
FilterPassChangesNothing ==
    /\ pc # "idle" => all_tools = session_tools
    /\ \A k \in 1..Len(filtered_tools) : ListHas(session_tools, filtered_tools[k])
    /\ pc = "done" => \A k \in 1..Len(result) : ListHas(session_tools, result[k])

FilterPassChangesNothingWitness ==
    /\ pc = "done"
    /\ custom_filter.present
    /\ FiltersTruthy(annotation_filters)
    /\ all_tools = session_tools
    /\ Len(all_tools) = MaxTools
    /\ Len(result) = 2
    /\ \E k \in 1..Len(result) : MetadataTruthy(result[k])

\* The lines of the trace that report one tool each.
IsToolLine(line) == line.tag \in {"include", "exclude"}
ToolLines == SelectSeq(stdout, IsToolLine)

\* The trace has one line per fetched tool, in input order: the name of a tool
\* that is in the result, the checked key=value pairs of an excluded one.
OneLinePerTool ==
    /\ Len(ToolLines) = Len(all_tools)
    /\ \A k \in 1..Len(all_tools) :
          /\ ToolLines[k].name = all_tools[k].name
          /\ ToolLines[k].tag = IF InResult(all_tools[k]) THEN "include" ELSE "exclude"
          /\ ~InResult(all_tools[k]) =>
                ToolLines[k].info = AnnotationsInfo(all_tools[k], annotation_filters)

\* C21 as stated: with debug enabled the trace of a finished call has one line
\* per fetched tool, for every filter configuration, the one with no filters
\* included.
DebugTraceReportsEveryTool == (pc = "done" /\ debug) => OneLinePerTool

\* C28: a filter value that is neither a list nor a predicate never matches
\* a list-valued annotation: it is compared by equality, not looked up in the
\* annotation list, so {toolsets: "performance"} excludes a tool annotated
\* toolsets = ["performance"].
ScalarFilterNeverMatchesList ==
    (pc = "done" /\ OneToolsetsFilter
       /\ ToolsetsFilter.kind \notin {"list", "callable"}) =>
        \A k \in 1..Len(all_tools) :
            RawAnnotation(all_tools[k], "toolsets").kind = "list"
                => ~InResult(all_tools[k])

ScalarFilterNeverMatchesListWitness ==
    /\ pc = "done"
    /\ OneToolsetsFilter
    /\ ToolsetsFilter = PyStr("performance")
    /\ all_tools = << Probe("probe_a", PyList(<<PyStr("performance")>>)),
                      Probe("probe_b", PyStr("performance")) >>
    /\ result = << Probe("probe_b", PyStr("performance")) >>

\* C29 as stated: the outcome of a two-key filter does not depend on the
\* order of its keys: on the same tool list {k1: v1, k2: v2} and
\* {k2: v2, k1: v1} give the same list.
KeyOrderDoesNotMatter ==
    \A r, q \in returned :
        (Len(r.filters.entries) = 2 /\ q.filters = SwapKeys(r.filters)
           /\ q.tools = r.tools /\ q.custom = r.custom)
        => q.outcome = r.outcome

\* The tool's metadata holds the hint, and the hint is the boolean wanted (or
\* the number Python takes for it).
HintPresentAs(tool, key, wanted) ==
    /\ ~LacksAnnotation(tool, key)
    /\ RawAnnotation(tool, key).kind \in {"bool", "int"}
    /\ RawAnnotation(tool, key).n = IF wanted THEN 1 ELSE 0

\* C30: load_safe_tools returns a tool only if its metadata holds all of
\* readOnlyHint = true, destructiveHint = false and openWorldHint = false: a
\* tool that lacks any of the three hints is never returned.
SafeToolsNeedEveryHint ==
    (pc = "done" /\ called.fn = "load_safe_tools") =>
        \A k \in 1..Len(all_tools) :
            InResult(all_tools[k]) =>
                /\ HintPresentAs(all_tools[k], "readOnlyHint", TRUE)
                /\ HintPresentAs(all_tools[k], "destructiveHint", FALSE)
                /\ HintPresentAs(all_tools[k], "openWorldHint", FALSE)

SafeToolsNeedEveryHintWitness ==
    /\ pc = "done"
    /\ called.fn = "load_safe_tools"
    /\ all_tools = <<Unannotated, ReadStatus, HalfAnnotated>>
    /\ result = <<ReadStatus>>

\* The toolset each agent type is documented to get, and the factory
\* registered for it.
ClaimedToolset ==
    [ performance |-> "performance", discovery |-> "sysadmin_discovery",
      browse |-> "sysadmin_browse", search |-> "sysadmin_search" ]
ClaimedFactory ==
    [ performance |-> "create_performance_agent",
      discovery |-> "create_sysadmin_discovery_agent",
      browse |-> "create_sysadmin_browse_agent",
      search |-> "create_sysadmin_search_agent" ]

\* The tool's toolsets annotation is a list that contains the toolset name.
InToolset(tool, toolset) ==
    LET value == RawAnnotation(tool, "toolsets")
    IN  value.kind = "list" /\ \E j \in 1..Len(value.items) : value.items[j] = PyStr(toolset)

\* The session's tools of the toolset, in session order.
ToolsOfToolset(toolset) ==
    LET Belongs(tool) == InToolset(tool, toolset)
    IN  SelectSeq(session_tools, Belongs)

UnknownAgentTypeOnlyRaises ==
    [][ Len(requests') = Len(requests) + 1 =>
          LET request == requests'[Len(requests')]
          IN  IF request.type \in DOMAIN ClaimedFactory
              THEN /\ request.outcome = "invoked"
                   /\ invoked' = Append(invoked, ClaimedFactory[request.type])
              ELSE /\ request.outcome = "ValueError"
                   /\ UNCHANGED <<mcp_client, shared_checkpointer, shared_store,
                                  shared_db, objects, agents, invoked, agent_pc,
                                  factory, session_url>> ]_vars

UnknownAgentTypeOnlyRaisesWitness ==
    /\ Len(requests) = 2
    /\ requests[1] =
          Request("langgraph", "backup", DEFAULT_MCP_URL, DEFAULT_TRANSPORT, "ValueError")
    /\ requests[2] =
          Request("agno", "search", DEFAULT_MCP_URL, DEFAULT_TRANSPORT, "invoked")
    /\ invoked = <<"create_sysadmin_search_agent">>
    /\ ~mcp_client.present
    /\ shared_db # NoObject

\* The create_agent calls that reached a LangGraph factory.
IsFactoryCall(request) == request.framework = "langgraph" /\ request.outcome = "invoked"
FactoryCalls == SelectSeq(requests, IsFactoryCall)

\* The LangGraph agents built so far.
IsLangGraphAgent(agent) == agent.framework = "langgraph"
LangGraphAgents == SelectSeq(agents, IsLangGraphAgent)

\* C26: get_mcp_client returns one shared client, configured with the url and
\* transport of the first call; the url and transport of a later call are
\* ignored, so a later factory's session is opened against the first call's
\* url. get_shared_checkpointer and get_shared_store return one and the same
\* instance on every call.
SharedClientKeepsFirstUrl ==
    FactoryCalls # <<>> =>
        /\ mcp_client = [present |-> TRUE, url |-> FactoryCalls[1].mcp_url,
                         transport |-> FactoryCalls[1].transport]
        /\ agent_pc = "in_session" => session_url = FactoryCalls[1].mcp_url
        /\ \A k \in 1..Len(LangGraphAgents) :
              /\ LangGraphAgents[k].url = FactoryCalls[1].mcp_url
              /\ LangGraphAgents[k].checkpointer = shared_checkpointer
              /\ LangGraphAgents[k].store = shared_store
              /\ shared_checkpointer # NoObject
              /\ shared_store # NoObject
              /\ shared_store # shared_checkpointer

SharedClientKeepsFirstUrlWitness ==
    /\ Len(FactoryCalls) = 2
    /\ FactoryCalls[1].mcp_url = DEFAULT_MCP_URL
    /\ FactoryCalls[2].mcp_url = OtherMcpUrl
    /\ FactoryCalls[2].transport = "sse"
    /\ Len(LangGraphAgents) = 2
    /\ LangGraphAgents[2].url = DEFAULT_MCP_URL
    /\ LangGraphAgents[2].checkpointer = LangGraphAgents[1].checkpointer

\* The chat_with_agent call is over.
ChatOver(c) == chats[c].pc \in {"returned", "raised"}

\* C24: with no other chat_with_agent call in progress, VERBOSE_LOGGING has,
\* when the call returns or raises, the value it had when the call started,
\* whatever the verbose argument was.
ChatRestoresVerbose ==
    \A c \in 1..MaxChats :
        (ChatOver(c) /\ ~chats[c].overlapped) => chats[c].at_end = chats[c].at_start

ChatRestoresVerboseWitness ==
    /\ chats[1].pc = "raised"
    /\ chats[1].verbose = "False"
    /\ chats[1].at_start /\ chats[1].at_end
    /\ chats[2].pc = "returned"
    /\ chats[2].verbose = "True"
    /\ ~chats[2].at_start /\ ~chats[2].at_end
    /\ chats[2].printed = <<"user_message", "final_response">>

\* C25 as stated: when two chat_with_agent calls overlap and at least one
\* passes an explicit verbose argument, VERBOSE_LOGGING is, after both have
\* finished, what it was before either started.
OverlappingChatsRestoreVerbose ==
    ( /\ \A c \in 1..MaxChats : ChatOver(c) /\ chats[c].overlapped
      /\ \E c \in 1..MaxChats : chats[c].verbose # "None" )
    => VERBOSE_LOGGING = verbose_at_rest

\* C27 as stated: on every path of run_agent on which the factory returned an
\* (agent, toolset) pair, toolset.close() has been awaited when run_agent
\* returns.
ToolsetClosedOnEveryPath ==
    (adk_pc = "returned" /\ mcp_toolset # "none")
        => mcp_toolset \in {"closed", "close_raised"}

====
